---- MODULE Spec2Model ----
(***************************************************************************)
(* Model of telegram_bot.py: handle_message, transcribe_audio and the      *)
(* host that dispatches updates to handle_message.                         *)
(*                                                                         *)
(* Text is a sequence of symbols (one symbol per character or per word;    *)
(* the blank " " is the only whitespace symbol).  A Python value is a      *)
(* record [t, s]: t is its type ("str", "none", "num"), s its text.        *)
(***************************************************************************)
EXTENDS Integers, Sequences, FiniteSets, TLC

\* Number of updates the host dispatches in one run of the model.
MaxUpdates == 2

\* Slots in which the host runs handle_message executions.
Handlers == {"h1", "h2"}

(***************************************************************************)
(* Python values                                                           *)
(***************************************************************************)
Str(s) == [t |-> "str", s |-> s]
None == [t |-> "none", s |-> <<>>]
Num(s) == [t |-> "num", s |-> s]
\* A local variable that has not been assigned yet.
Unset == [t |-> "unset", s |-> <<>>]

\* The literal '-' the prompt and the code use for a missing field.
Sentinel == Str(<<"-">>)

\* `v is None`: the empty string passes this test.
IsNone(v) == v.t = "none"

\* `not v` for the values handle_message tests: None and '' are falsy.
NotTruthy(v) == v.t = "none" \/ (v.t = "str" /\ v.s = <<>>)

\* f"{v}": the text an f-string interpolates for a value.
Fmt(v) == IF v.t = "none" THEN <<"None">> ELSE v.s

RECURSIVE LStrip(_)
LStrip(s) == IF s # <<>> /\ Head(s) = " " THEN LStrip(Tail(s)) ELSE s

RECURSIVE RStrip(_)
RStrip(s) ==
    IF s # <<>> /\ s[Len(s)] = " " THEN RStrip(SubSeq(s, 1, Len(s) - 1)) ELSE s

\* str.strip()
Strip(s) == RStrip(LStrip(s))

(***************************************************************************)
(* The speech service and transcribe_audio                                 *)
(***************************************************************************)
\* Recordings the users send.
Audios == {"A_x", "A_empty", "A_silence", "A_two"}

\* response.results of speech_client.recognize for the bytes read from disk.
SpeechResults(content) ==
    CASE content = "A_x" ->
           << [alternatives |-> << [transcript |-> <<"x">>] >>] >>
      [] content = "A_two" ->
           << [alternatives |-> << [transcript |-> <<"y">>],
                                   [transcript |-> <<"z">>] >>],
              [alternatives |-> << [transcript |-> <<"w">>] >>] >>
      [] content = "A_empty" ->
           << [alternatives |-> << [transcript |-> <<>>] >>] >>
      [] OTHER -> << >>

\* for result in response.results: return result.alternatives[0].transcript
\* return None
transcribe_audio(content) ==
    LET results == SpeechResults(content) IN
    IF results # <<>> THEN Str(results[1].alternatives[1].transcript) ELSE None

(***************************************************************************)
(* The language-model call and json.loads                                  *)
(***************************************************************************)
Tok(k, s) == [k |-> k, s |-> s]
LBrace == Tok("{", <<>>)
RBrace == Tok("}", <<>>)
LBracket == Tok("[", <<>>)
RBracket == Tok("]", <<>>)
Colon == Tok(":", <<>>)
Comma == Tok(",", <<>>)
TStr(s) == Tok("str", s)
TNum(s) == Tok("num", s)
TNull == Tok("null", <<>>)
\* Bare prose: not a JSON token.
TWord(s) == Tok("word", s)

K_description == <<"description">>
K_client == <<"client">>
K_time_spent == <<"time_spent">>
K_amount == <<"amount">>

Member(key, tok) == <<TStr(key), Colon, tok>>

\* {"description":"d","client":"c","time_spent":"2h","amount":"500"}
R_full ==
    <<LBrace>> \o Member(K_description, TStr(<<"d">>)) \o <<Comma>>
      \o Member(K_client, TStr(<<"c">>)) \o <<Comma>>
      \o Member(K_time_spent, TStr(<<"2h">>)) \o <<Comma>>
      \o Member(K_amount, TStr(<<"500">>)) \o <<RBrace>>

\* {"time_spent":"2h","amount":" "}
R_time_only ==
    <<LBrace>> \o Member(K_time_spent, TStr(<<"2h">>)) \o <<Comma>>
      \o Member(K_amount, TStr(<<" ">>)) \o <<RBrace>>

\* {"description":"d","client":"c","time_spent":"-","amount":" 5 "}
R_amount_only ==
    <<LBrace>> \o Member(K_description, TStr(<<"d">>)) \o <<Comma>>
      \o Member(K_client, TStr(<<"c">>)) \o <<Comma>>
      \o Member(K_time_spent, TStr(<<"-">>)) \o <<Comma>>
      \o Member(K_amount, TStr(<<" ", "5", " ">>)) \o <<RBrace>>

\* {"description":"d","client":"c","time_spent":null,"amount":"500"}
R_null_time ==
    <<LBrace>> \o Member(K_description, TStr(<<"d">>)) \o <<Comma>>
      \o Member(K_client, TStr(<<"c">>)) \o <<Comma>>
      \o Member(K_time_spent, TNull) \o <<Comma>>
      \o Member(K_amount, TStr(<<"500">>)) \o <<RBrace>>

\* {"description":"d","client":"c","time_spent":"-","amount":500}
R_num_amount ==
    <<LBrace>> \o Member(K_description, TStr(<<"d">>)) \o <<Comma>>
      \o Member(K_client, TStr(<<"c">>)) \o <<Comma>>
      \o Member(K_time_spent, TStr(<<"-">>)) \o <<Comma>>
      \o Member(K_amount, TNum(<<"500">>)) \o <<RBrace>>

\* []
R_array == <<LBracket, RBracket>>

\* Done, saved
R_prose == <<TWord(<<"Done">>), Comma, TWord(<<"saved">>)>>

\* {"description":"d"       (the closing brace is missing)
R_truncated == <<LBrace>> \o Member(K_description, TStr(<<"d">>))

\* response.choices[0].message.content of the replies the model can give.
Replies ==
    {R_full, R_time_only, R_amount_only, R_null_time, R_num_amount,
     R_array, R_prose, R_truncated}

\* The reply as the string the code holds in chatgpt_response.
RECURSIVE RawText(_)
RawText(toks) ==
    IF toks = <<>> THEN <<>>
    ELSE LET t == Head(toks)
             here == CASE t.k = "str" -> <<"\"">> \o t.s \o <<"\"">>
                       [] t.k \in {"num", "word"} -> t.s
                       [] OTHER -> <<t.k>>
         IN here \o RawText(Tail(toks))

IsScalarTok(t) == t.k \in {"str", "num", "null"}

TokValue(t) ==
    CASE t.k = "str" -> Str(t.s)
      [] t.k = "num" -> Num(t.s)
      [] OTHER -> None

EmptyDict == [key \in {} |-> None]

\* The Python value json.loads returns, or the JSONDecodeError it raises.
JsonError == [ok |-> FALSE, isDict |-> FALSE, obj |-> EmptyDict]
JsonDict(obj) == [ok |-> TRUE, isDict |-> TRUE, obj |-> obj]
JsonOther == [ok |-> TRUE, isDict |-> FALSE, obj |-> EmptyDict]

\* Members of an object from position i on: key : scalar, then "," or "}".
\* A repeated key keeps its last value, as in Python's dict.
RECURSIVE ParseMembers(_, _, _)
ParseMembers(toks, i, acc) ==
    IF i + 3 > Len(toks) THEN JsonError
    ELSE IF toks[i].k = "str" /\ toks[i + 1] = Colon /\ IsScalarTok(toks[i + 2])
    THEN LET key == toks[i].s
             acc2 == [x \in DOMAIN acc \cup {key} |->
                        IF x = key THEN TokValue(toks[i + 2]) ELSE acc[x]]
         IN IF toks[i + 3] = RBrace
            THEN IF i + 3 = Len(toks) THEN JsonDict(acc2) ELSE JsonError
            ELSE IF toks[i + 3] = Comma
                 THEN ParseMembers(toks, i + 4, acc2)
                 ELSE JsonError
    ELSE JsonError

\* json.loads on the replies of this model: a scalar, an empty array, or an
\* object whose values are scalars; anything else is a JSONDecodeError.
json_loads(toks) ==
    IF Len(toks) = 1 /\ IsScalarTok(toks[1]) THEN JsonOther
    ELSE IF toks = <<LBracket, RBracket>> THEN JsonOther
    ELSE IF toks = <<LBrace, RBrace>> THEN JsonDict(EmptyDict)
    ELSE IF Len(toks) >= 2 /\ toks[1] = LBrace THEN ParseMembers(toks, 2, EmptyDict)
    ELSE JsonError

\* dict.get(key, default)
Get(obj, key, default) == IF key \in DOMAIN obj THEN obj[key] ELSE default

(***************************************************************************)
(* The Field Extractor: lines 80-123 of handle_message                     *)
(***************************************************************************)
\* What client.chat.completions.create does: it raises, or it returns a
\* response whose first choice has the given content.
LlmOutcomes ==
    {[raised |-> TRUE, content |-> <<>>]}
        \cup {[raised |-> FALSE, content |-> r] : r \in Replies}

NotCalled == [raised |-> FALSE, content |-> <<TWord(<<"not called">>)>>]

\* The request of lines 81-104; the user content interpolates user_message.
LlmRequest(message) ==
    [model |-> "gpt-3.5-turbo",
     system |-> "extract client, description, time_spent, amount as JSON",
     user |-> <<"Extract the data from the message: '">> \o Fmt(message)
                \o <<"'. Answer in JSON with the keys description, client, time_spent, amount.">>,
     temperature |-> 0]

NoRequest == [model |-> "", system |-> "", user |-> <<>>, temperature |-> 0]

MkEntry(d, c, t, a) ==
    [description |-> d, client_name |-> c, time_spent |-> t, amount |-> a]

NoEntry == MkEntry(Unset, Unset, Unset, Unset)

\* except json.JSONDecodeError: the reply becomes the description.
PlainTextDataNoDescription(chatgpt_response) ==
    JsonDict([key \in {<<"text">>, K_client, K_time_spent, K_amount} |->
                IF key = <<"text">> THEN Str(chatgpt_response) ELSE Sentinel])

PlainTextData(chatgpt_response) ==
    JsonDict([key \in {K_description, K_client, K_time_spent, K_amount} |->
                IF key = K_description THEN Str(chatgpt_response) ELSE Sentinel])

\* except Exception: description, client_name, time_spent, amount =
\*     user_message, '-', '-', '-'
FallbackEntry(message) == MkEntry(message, Sentinel, Sentinel, Sentinel)

\* Lines 117-120.
FieldsOf(obj) ==
    MkEntry(Get(obj, K_description, Sentinel), Get(obj, K_client, Sentinel),
            Get(obj, K_time_spent, Sentinel), Get(obj, K_amount, Sentinel))

Extracted(e) == [raised |-> FALSE, entry |-> e]
ExtractionRaised == [raised |-> TRUE, entry |-> NoEntry]

\* The try of line 80 with a handler for the failure of the call alone: what
\* data.get raises on a value that is no dict leaves handle_message.
TryExtractCallFailureOnly(message, outcome) ==
    IF outcome.raised THEN Extracted(FallbackEntry(message))
    ELSE LET chatgpt_response == RawText(outcome.content)
             loaded == json_loads(outcome.content)
             data == IF loaded.ok THEN loaded ELSE PlainTextData(chatgpt_response)
         IN IF data.isDict THEN Extracted(FieldsOf(data.obj)) ELSE ExtractionRaised

\* The try/except of lines 80-123.  data.get on a list, a number, a string
\* or None raises AttributeError, which `except Exception` catches too.
TryExtract(message, outcome) ==
    IF outcome.raised THEN Extracted(FallbackEntry(message))
    ELSE LET chatgpt_response == RawText(outcome.content)
             loaded == json_loads(outcome.content)
             data == IF loaded.ok THEN loaded ELSE PlainTextData(chatgpt_response)
         IN IF data.isDict
            THEN Extracted(FieldsOf(data.obj))
            ELSE Extracted(FallbackEntry(message))

(***************************************************************************)
(* The Ledger Writer: lines 125-142 of handle_message                      *)
(***************************************************************************)
\* datetime.now(kiev_timezone).strftime("%Y-%m-%d %H:%M:%S") when the clock
\* shows `second`.  The model's clock counts the updates received so far.
Strftime(second) == <<"2024-01-01 10:00:0", ToString(second)>>

BuildRowClientFirst(ts, e) ==
    <<Str(ts), e.client_name, e.description, e.time_spent, e.amount>>

\* row = [current_datetime, description, client_name, time_spent, amount]
BuildRow(ts, e) ==
    <<Str(ts), e.description, e.client_name, e.time_spent, e.amount>>

Line(tag, text) == [tag |-> tag, text |-> text]

\* `v != '-' and v.strip()`: a value that is not a str and not equal to '-'
\* has no strip and raises AttributeError.
Shows(v) ==
    [raised |-> v # Sentinel /\ v.t # "str",
     show |-> v # Sentinel /\ v.t = "str" /\ Strip(v.s) # <<>>]

ReplyHead(ts, e) ==
    <<Line("calendar", ts), Line("speech", Fmt(e.description)),
      Line("person", Fmt(e.client_name))>>

BuildReplyTimeDecidesBoth(ts, e) ==
    LET t == Shows(e.time_spent) IN
    [raised |-> t.raised,
     lines |-> ReplyHead(ts, e)
               \o (IF t.show THEN <<Line("clock", Fmt(e.time_spent))>> ELSE <<>>)
               \o (IF t.show THEN <<Line("money", Fmt(e.amount))>> ELSE <<>>)]

\* Lines 131-137: the reply text, one element per line of the text.
BuildReply(ts, e) ==
    LET t == Shows(e.time_spent)
        a == Shows(e.amount)
    IN [raised |-> t.raised \/ a.raised,
        lines |-> ReplyHead(ts, e)
                  \o (IF t.show THEN <<Line("clock", Fmt(e.time_spent))>> ELSE <<>>)
                  \o (IF a.show THEN <<Line("money", Fmt(e.amount))>> ELSE <<>>)]

\* The two fixed replies.
NotRecognizedReply == <<Line("plain", <<"could not recognize the voice message">>)>>
AppendErrorReply == <<Line("plain", <<"error while adding the data to the table">>)>>

\* What worksheet.append_row does: it returns, raises gspread's APIError, or
\* raises something else (a connection error, a timeout).
AppendOutcomes == {"ok", "APIError", "ConnectionError"}

(***************************************************************************)
(* State                                                                   *)
(***************************************************************************)
VARIABLES
    pc,            \* where each handle_message execution is
    upd,           \* update.message of each execution
    file,          \* contents of voice_message.ogg in the working directory
    heard,         \* the bytes transcribe_audio read and sent to the service
    user_message,  \* local user_message
    request,       \* the request sent to the language model
    oai,           \* what the language-model call did
    entry,         \* description, client_name, time_spent, amount
    rows,          \* the rows passed to worksheet.append_row, in order
    appended,      \* what the append_row call did
    sent,          \* the texts passed to update.message.reply_text, in order
    calls,         \* remote calls made by the execution
    sheetRows,     \* number of rows in the spreadsheet
    dispatched     \* number of updates the host has dispatched

vars ==
    <<pc, upd, file, heard, user_message, request, oai, entry, rows, appended,
      sent, calls, sheetRows, dispatched>>

\* Messages the filters of main() let through: text (a /start command is
\* handled as text) or a voice recording.
UserTexts == {<<"x">>}

Updates ==
    {[voice |-> "none", text |-> Str(m)] : m \in UserTexts}
        \cup {[voice |-> a, text |-> None] : a \in Audios}

NoUpdate == [voice |-> "none", text |-> Unset]
NoCalls == [speech |-> 0, llm |-> 0, append |-> 0]

Init ==
    /\ pc = [h \in Handlers |-> "idle"]
    /\ upd = [h \in Handlers |-> NoUpdate]
    /\ file = "absent"
    /\ heard = [h \in Handlers |-> "nothing"]
    /\ user_message = [h \in Handlers |-> Unset]
    /\ request = [h \in Handlers |-> NoRequest]
    /\ oai = [h \in Handlers |-> NotCalled]
    /\ entry = [h \in Handlers |-> NoEntry]
    /\ rows = [h \in Handlers |-> <<>>]
    /\ appended = [h \in Handlers |-> "not called"]
    /\ sent = [h \in Handlers |-> <<>>]
    /\ calls = [h \in Handlers |-> NoCalls]
    /\ sheetRows = 0
    /\ dispatched = 0

Finished(h) == pc[h] \in {"done", "crashed"}

\* The host calls handle_message(update, context) in a free slot.
Dispatch(h) ==
    /\ pc[h] = "idle" \/ Finished(h)
    /\ dispatched < MaxUpdates
    /\ \E u \in Updates : upd' = [upd EXCEPT ![h] = u]
    /\ pc' = [pc EXCEPT ![h] = "start"]
    /\ heard' = [heard EXCEPT ![h] = "nothing"]
    /\ user_message' = [user_message EXCEPT ![h] = Unset]
    /\ request' = [request EXCEPT ![h] = NoRequest]
    /\ oai' = [oai EXCEPT ![h] = NotCalled]
    /\ entry' = [entry EXCEPT ![h] = NoEntry]
    /\ rows' = [rows EXCEPT ![h] = <<>>]
    /\ appended' = [appended EXCEPT ![h] = "not called"]
    /\ sent' = [sent EXCEPT ![h] = <<>>]
    /\ calls' = [calls EXCEPT ![h] = NoCalls]
    /\ dispatched' = dispatched + 1
    /\ UNCHANGED <<file, sheetRows>>

\* Lines 64-66 and 74-76: a voice message awaits get_file; a text message
\* takes update.message.text.
Start(h) ==
    /\ pc[h] = "start"
    /\ IF upd[h].voice # "none"
       THEN /\ pc' = [pc EXCEPT ![h] = "download"]
            /\ UNCHANGED user_message
       ELSE /\ pc' = [pc EXCEPT ![h] = "extract"]
            /\ user_message' = [user_message EXCEPT ![h] = upd[h].text]
    /\ UNCHANGED <<upd, file, heard, request, oai, entry, rows, appended, sent,
                   calls, sheetRows, dispatched>>

\* Lines 67-68: await file.download_to_drive("voice_message.ogg").
DownloadToDrive(h) ==
    /\ pc[h] = "download"
    /\ file' = upd[h].voice
    /\ pc' = [pc EXCEPT ![h] = "transcribe"]
    /\ UNCHANGED <<upd, heard, user_message, request, oai, entry, rows, appended,
                   sent, calls, sheetRows, dispatched>>

\* Lines 70-73 with transcribe_audio (47-61): read the file, one recognize
\* call (which may raise), then the test of the transcript.
Transcribe(h) ==
    /\ pc[h] = "transcribe"
    /\ heard' = [heard EXCEPT ![h] = file]
    /\ calls' = [calls EXCEPT ![h].speech = @ + 1]
    /\ \E recognized \in BOOLEAN :
         IF ~recognized
         THEN /\ pc' = [pc EXCEPT ![h] = "crashed"]
              /\ UNCHANGED <<user_message, sent>>
         ELSE LET transcript == transcribe_audio(file) IN
              /\ user_message' = [user_message EXCEPT ![h] = transcript]
              /\ IF NotTruthy(transcript)
                 THEN /\ sent' = [sent EXCEPT ![h] = Append(@, NotRecognizedReply)]
                      /\ pc' = [pc EXCEPT ![h] = "done"]
                 ELSE /\ pc' = [pc EXCEPT ![h] = "extract"]
                      /\ UNCHANGED sent
    /\ UNCHANGED <<upd, file, request, oai, entry, rows, appended, sheetRows,
                   dispatched>>

\* Lines 78-123 run for the text `message`: one call of the language model,
\* then the parse and the four fields.
ExtractWith(h, message) ==
    /\ pc[h] = "extract"
    /\ request' = [request EXCEPT ![h] = LlmRequest(message)]
    /\ calls' = [calls EXCEPT ![h].llm = @ + 1]
    /\ \E outcome \in LlmOutcomes :
         LET got == TryExtract(message, outcome) IN
         /\ oai' = [oai EXCEPT ![h] = outcome]
         /\ entry' = [entry EXCEPT ![h] = got.entry]
         /\ pc' = [pc EXCEPT ![h] = IF got.raised THEN "crashed" ELSE "append"]
    /\ UNCHANGED <<upd, file, heard, user_message, rows, appended, sent,
                   sheetRows, dispatched>>

\* The extraction fed from update.message.text, which a voice message
\* leaves None.
ExtractFromUpdateText(h) == ExtractWith(h, upd[h].text)

\* Lines 78-123: the extraction is fed from the local user_message.
Extract(h) == ExtractWith(h, user_message[h])

\* Lines 126-142 after `attempts` calls of worksheet.append_row(row), the
\* last of which did `outcome`: the reply on success, the fixed error reply
\* on APIError, and nothing on any other exception or when building the
\* reply raises.
AppendEffects(h, ts, outcome, attempts) ==
    LET row == BuildRow(ts, entry[h])
        reply == BuildReply(ts, entry[h])
    IN /\ rows' = [rows EXCEPT ![h] = @ \o [i \in 1..attempts |-> row]]
       /\ calls' = [calls EXCEPT ![h].append = @ + attempts]
       /\ appended' = [appended EXCEPT ![h] = outcome]
       /\ sheetRows' = IF outcome = "ok" THEN sheetRows + 1 ELSE sheetRows
       /\ CASE outcome = "ok" /\ ~reply.raised ->
                 /\ sent' = [sent EXCEPT ![h] = Append(@, reply.lines)]
                 /\ pc' = [pc EXCEPT ![h] = "done"]
            [] outcome = "ok" /\ reply.raised ->
                 /\ pc' = [pc EXCEPT ![h] = "crashed"]
                 /\ UNCHANGED sent
            [] outcome = "APIError" ->
                 /\ sent' = [sent EXCEPT ![h] = Append(@, AppendErrorReply)]
                 /\ pc' = [pc EXCEPT ![h] = "done"]
            [] OTHER ->
                 /\ pc' = [pc EXCEPT ![h] = "crashed"]
                 /\ UNCHANGED sent
       /\ UNCHANGED <<upd, file, heard, user_message, request, oai, entry,
                      dispatched>>

\* The append tried a second time after an APIError.
AppendAndReplyWithRetry(h) ==
    /\ pc[h] = "append"
    /\ \E first \in AppendOutcomes, second \in AppendOutcomes :
         IF first = "APIError"
         THEN AppendEffects(h, Strftime(dispatched), second, 2)
         ELSE AppendEffects(h, Strftime(dispatched), first, 1)

\* Lines 125-142: the timestamp, the row, one append_row call and the reply.
AppendAndReply(h) ==
    /\ pc[h] = "append"
    /\ \E outcome \in AppendOutcomes :
         AppendEffects(h, Strftime(dispatched), outcome, 1)

Next ==
    \E h \in Handlers :
        \/ Dispatch(h)
        \/ Start(h)
        \/ DownloadToDrive(h)
        \/ Transcribe(h)
        \/ Extract(h)
        \/ AppendAndReply(h)

Spec == Init /\ [][Next]_vars

(***************************************************************************)
(* Properties                                                              *)
(***************************************************************************)
IsConfirmation(m) == m[1].tag = "calendar"
Confirmations(h) == {i \in 1..Len(sent[h]) : IsConfirmation(sent[h][i])}
HasLine(m, tag) == \E i \in 1..Len(m) : m[i].tag = tag
\* The text is not empty once blanks are trimmed off both ends.
NonBlank(s) == \E i \in 1..Len(s) : s[i] # " "
DegradedRow(description) == <<description, Sentinel, Sentinel, Sentinel>>

\* C1: a voice message whose transcription returned None or '' gets the
\* fixed "could not recognize" reply and its handler has returned without a
\* language-model call, an append or any other reply.
C1_NoTranscriptStops ==
    \A h \in Handlers :
        (upd[h].voice # "none" /\ user_message[h] \in {None, Str(<<>>)}) =>
            /\ pc[h] = "done"
            /\ sent[h] = <<NotRecognizedReply>>
            /\ calls[h].llm = 0
            /\ calls[h].append = 0
            /\ request[h] = NoRequest
            /\ rows[h] = <<>>
            /\ appended[h] = "not called"

C1_Witness ==
    \E h1, h2 \in Handlers :
        /\ upd[h1].voice # "none" /\ user_message[h1] = None
        /\ upd[h2].voice # "none" /\ user_message[h2] = Str(<<>>)
        /\ pc[h1] = "done" /\ pc[h2] = "done"
        /\ calls[h1].speech = 1 /\ calls[h2].speech = 1

\* C2: once the language-model call of a handler has been made, whatever it
\* did, the handler has not failed in the extraction and holds four assigned
\* fields: the values of the parsed JSON object (the sentinel for a missing
\* key), or the raw reply and three sentinels when the reply is no JSON, or
\* the user's message and three sentinels when the call raised (and when
\* the reply is JSON but no object).
C2_ExtractionYieldsRecord ==
    \A h \in Handlers :
        calls[h].llm >= 1 =>
            LET o == oai[h]
                e == entry[h]
                loaded == json_loads(o.content)
                field(key) ==
                    IF key \in DOMAIN loaded.obj THEN loaded.obj[key] ELSE Sentinel
            IN /\ pc[h] = "crashed" => calls[h].append >= 1
               /\ \A f \in DOMAIN e : e[f] # Unset
               /\ o.raised =>
                      e = MkEntry(user_message[h], Sentinel, Sentinel, Sentinel)
               /\ (~o.raised /\ ~loaded.ok) =>
                      e = MkEntry(Str(RawText(o.content)), Sentinel, Sentinel, Sentinel)
               /\ (~o.raised /\ loaded.ok /\ loaded.isDict) =>
                      e = MkEntry(field(K_description), field(K_client),
                                  field(K_time_spent), field(K_amount))
               /\ (~o.raised /\ loaded.ok /\ ~loaded.isDict) =>
                      e = MkEntry(user_message[h], Sentinel, Sentinel, Sentinel)

C2_Witness ==
    \E h1, h2 \in Handlers :
        /\ calls[h1].llm = 1 /\ oai[h1].content = R_prose
        /\ entry[h1].description = Str(<<"Done", ",", "saved">>)
        /\ calls[h2].llm = 1 /\ oai[h2].content = R_array
        /\ entry[h2].description = user_message[h2]

\* C3: every row passed to append_row has exactly five fields, in the order
\* timestamp, description, client_name, time_spent, amount.
C3_RowHasFiveOrderedFields ==
    \A h \in Handlers :
        \A i \in 1..Len(rows[h]) :
            LET row == rows[h][i] IN
            /\ Len(row) = 5
            /\ \E second \in 1..dispatched : row[1] = Str(Strftime(second))
            /\ row[2] = entry[h].description
            /\ row[3] = entry[h].client_name
            /\ row[4] = entry[h].time_spent
            /\ row[5] = entry[h].amount

C3_Witness ==
    \E h1, h2 \in Handlers :
        /\ Len(rows[h1]) = 1 /\ oai[h1].content = R_full
        /\ rows[h1][1][2] = Str(<<"d">>) /\ rows[h1][1][3] = Str(<<"c">>)
        /\ Len(rows[h2]) = 1 /\ oai[h2].raised
        /\ rows[h2][1][4] = Sentinel /\ rows[h2][1][5] = Sentinel

\* C4: a confirmation reply has the timestamp, description and client lines,
\* then the time line exactly when time_spent is not '-' and not blank, then
\* the amount line exactly when amount is not '-' and not blank.
C4_ReplyLinesMatchFields ==
    \A h \in Handlers :
        \A i \in Confirmations(h) :
            LET m == sent[h][i]
                e == entry[h]
                time == e.time_spent # Sentinel /\ NonBlank(e.time_spent.s)
                money == e.amount # Sentinel /\ NonBlank(e.amount.s)
            IN /\ Len(m) = 3 + (IF time THEN 1 ELSE 0) + (IF money THEN 1 ELSE 0)
               /\ m[1] = Line("calendar", rows[h][1][1].s)
               /\ m[2] = Line("speech", Fmt(e.description))
               /\ m[3] = Line("person", Fmt(e.client_name))
               /\ HasLine(m, "clock") <=> time
               /\ HasLine(m, "money") <=> money
               /\ time => m[4] = Line("clock", e.time_spent.s)
               /\ money => m[Len(m)] = Line("money", e.amount.s)

C4_Witness ==
    \E h1, h2 \in Handlers :
        /\ Confirmations(h1) # {} /\ Confirmations(h2) # {}
        /\ HasLine(sent[h1][1], "clock") /\ ~HasLine(sent[h1][1], "money")
        /\ entry[h1].amount = Str(<<" ">>)
        /\ ~HasLine(sent[h2][1], "clock") /\ HasLine(sent[h2][1], "money")
        /\ entry[h2].time_spent = Sentinel

\* C5: whenever the append_row call of a handler failed, in whatever way, the
\* handler has returned having sent the fixed error reply and nothing else.
C5_AppendFailureReportsError ==
    \A h \in Handlers :
        appended[h] \notin {"not called", "ok"} =>
            pc[h] = "done" /\ sent[h] = <<AppendErrorReply>>

\* Tail of each row: the row apart from its timestamp.
Unstamped(rs) == [i \in 1..Len(rs) |-> Tail(rs[i])]
\* The replies apart from the timestamp line of a confirmation.
UnstampedReplies(ms) ==
    [i \in 1..Len(ms) |-> IF IsConfirmation(ms[i]) THEN Tail(ms[i]) ELSE ms[i]]

\* C6: a voice message transcribed to T and a text message with content T,
\* given the same language-model outcome and the same append outcome, have
\* the same request, record, row (apart from the timestamp), replies and end.
C6_VoiceDownstreamSameAsText ==
    \A v, t \in Handlers :
        ( /\ upd[v].voice # "none" /\ upd[t].voice = "none"
          /\ calls[v].llm = 1 /\ calls[t].llm = 1
          /\ user_message[v] = upd[t].text
          /\ oai[v] = oai[t]
          /\ appended[v] = appended[t] ) =>
            /\ request[v] = request[t]
            /\ entry[v] = entry[t]
            /\ Unstamped(rows[v]) = Unstamped(rows[t])
            /\ UnstampedReplies(sent[v]) = UnstampedReplies(sent[t])
            /\ pc[v] = pc[t]
            /\ calls[v].append = calls[t].append

C6_Witness ==
    \E v, t \in Handlers :
        /\ upd[v].voice = "A_x" /\ upd[t].text = Str(<<"x">>)
        /\ user_message[v] = Str(<<"x">>)
        /\ oai[v] = oai[t] /\ oai[v].content = R_full
        /\ appended[v] = "ok" /\ appended[t] = "ok"
        /\ pc[v] = "done" /\ pc[t] = "done"

\* C7: after a language-model call that raised or a reply that is no JSON,
\* the handler goes on to append: it is about to append or has made its one
\* append_row call with the degraded record (the user's message, or the raw
\* reply, then three sentinels); when that append succeeded the handler has
\* returned with the three-line confirmation as its only reply.
C7_DegradedRecordStillAppended ==
    \A h \in Handlers :
        (calls[h].llm = 1 /\ (oai[h].raised \/ ~json_loads(oai[h].content).ok)) =>
            LET description ==
                    IF oai[h].raised THEN user_message[h]
                    ELSE Str(RawText(oai[h].content))
            IN /\ pc[h] = "append" \/ calls[h].append = 1
               /\ calls[h].append = 1 =>
                      /\ Len(rows[h]) = 1
                      /\ Tail(rows[h][1]) = DegradedRow(description)
               /\ appended[h] = "ok" =>
                      /\ pc[h] = "done"
                      /\ Len(sent[h]) = 1
                      /\ Len(sent[h][1]) = 3
                      /\ sent[h][1][1] = Line("calendar", rows[h][1][1].s)
                      /\ sent[h][1][2] = Line("speech", description.s)
                      /\ sent[h][1][3] = Line("person", <<"-">>)

C7_Witness ==
    \E h1, h2 \in Handlers :
        /\ oai[h1].raised /\ appended[h1] = "ok" /\ pc[h1] = "done"
        /\ sent[h1][1][2] = Line("speech", <<"x">>)
        /\ ~oai[h2].raised /\ oai[h2].content = R_truncated
        /\ appended[h2] = "ok" /\ pc[h2] = "done"

\* What a message is by its own content: its text, or the transcript of its
\* own recording.
OwnText(u) == IF u.voice # "none" THEN transcribe_audio(u.voice) ELSE u.text

\* C8: the recording a handler transcribes is the recording of its own
\* message, and the text it sends to the language model is its own.
C8_HandlersIndependent ==
    \A h \in Handlers :
        /\ heard[h] # "nothing" => heard[h] = upd[h].voice
        /\ request[h] # NoRequest => request[h] = LlmRequest(OwnText(upd[h]))

\* C9: a handler makes at most one recognition call, one language-model call
\* and one append_row call, adds at most one row, and the spreadsheet never
\* has more rows than updates were dispatched.
C9_NothingRetried ==
    /\ \A h \in Handlers :
          /\ calls[h].speech <= 1
          /\ calls[h].llm <= 1
          /\ calls[h].append <= 1
          /\ Len(rows[h]) <= 1
    /\ sheetRows <= dispatched

C9_Witness ==
    \E h \in Handlers :
        /\ pc[h] = "done" /\ appended[h] = "APIError"
        /\ calls[h] = [speech |-> 1, llm |-> 1, append |-> 1]
        /\ sheetRows = 0

\* C10: a confirmation is sent only after a successful append, and a handler
\* that has ended after a successful append has sent exactly one confirmation.
C10_AppendedImpliesAnswered ==
    \A h \in Handlers :
        /\ Confirmations(h) # {} => appended[h] = "ok"
        /\ (pc[h] \in {"done", "crashed"} /\ appended[h] = "ok") =>
               Cardinality(Confirmations(h)) = 1
====
